---- MODULE Spec2Model ----
(***************************************************************************)
(* Model of the terminal WebSocket bridge of src/server/wss/terminal.ts:   *)
(* one session = one accepted WebSocket (ws) bridged to one ssh2 Client    *)
(* (conn) and its shell stream.  Every action is one callback of the       *)
(* source, or one event of the environment (client, remote host, timer)    *)
(* together with the handlers the source has registered for it at that     *)
(* moment.                                                                 *)
(*                                                                         *)
(* Library behaviour the handlers rely on (ws, ssh2, node streams) is      *)
(* modelled as documented by those libraries:                              *)
(*   - ws.send() on a socket whose readyState is CLOSING or CLOSED         *)
(*     transmits nothing; ws.close() on a socket that is not OPEN is a     *)
(*     no-op; the "close" event is emitted once, to the listeners          *)
(*     registered at that moment;                                          *)
(*   - conn.end() closes the ssh connection; when the connection goes      *)
(*     away a pending conn.shell() callback is called with an error and    *)
(*     an open shell stream emits "close";                                 *)
(*   - Buffer.toString("utf8") replaces every invalid byte by U+FFFD and   *)
(*     writing a string to a stream encodes it as UTF-8.                   *)
(***************************************************************************)
EXTENDS Integers, Sequences, FiniteSets, TLC

(***************************************************************************)
(* Text.  A Buffer is a sequence of bytes, a JavaScript string a sequence  *)
(* of code points.                                                         *)
(***************************************************************************)
CharCode ==
    ("{" :> 123) @@ ("}" :> 125) @@ ("[" :> 91) @@ ("]" :> 93) @@ ("\"" :> 34) @@
    (":" :> 58) @@ ("," :> 44) @@ (" " :> 32) @@ ("-" :> 45) @@ ("0" :> 48) @@
    ("1" :> 49) @@ ("2" :> 50) @@ ("3" :> 51) @@ ("4" :> 52) @@ ("5" :> 53) @@
    ("6" :> 54) @@ ("7" :> 55) @@ ("8" :> 56) @@ ("9" :> 57) @@ ("a" :> 97) @@
    ("b" :> 98) @@ ("c" :> 99) @@ ("d" :> 100) @@ ("e" :> 101) @@ ("f" :> 102) @@
    ("g" :> 103) @@ ("h" :> 104) @@ ("i" :> 105) @@ ("j" :> 106) @@ ("k" :> 107) @@
    ("l" :> 108) @@ ("m" :> 109) @@ ("n" :> 110) @@ ("o" :> 111) @@ ("p" :> 112) @@
    ("q" :> 113) @@ ("r" :> 114) @@ ("s" :> 115) @@ ("t" :> 116) @@ ("u" :> 117) @@
    ("v" :> 118) @@ ("w" :> 119) @@ ("x" :> 120) @@ ("y" :> 121) @@ ("z" :> 122)

Str(cs) == [i \in 1..Len(cs) |-> CharCode[cs[i]]]

ReplacementChar == 65533

IsCont(b) == b \in 128..191

\* Buffer.prototype.toString("utf8"): one-, two- and three-byte sequences
\* decode to their code point, any other byte to U+FFFD.
RECURSIVE Utf8Decode(_)
Utf8Decode(bs) ==
    IF bs = <<>> THEN <<>>
    ELSE LET b == Head(bs)
             n == Len(bs)
         IN  IF b < 128 THEN <<b>> \o Utf8Decode(Tail(bs))
             ELSE IF b \in 194..223 /\ n >= 2 /\ IsCont(bs[2])
                  THEN <<(b - 192) * 64 + (bs[2] - 128)>>
                       \o Utf8Decode(SubSeq(bs, 3, n))
             ELSE IF b \in 224..239 /\ n >= 3 /\ IsCont(bs[2]) /\ IsCont(bs[3])
                     /\ (b - 224) * 4096 + (bs[2] - 128) * 64 + (bs[3] - 128) >= 2048
                  THEN <<(b - 224) * 4096 + (bs[2] - 128) * 64 + (bs[3] - 128)>>
                       \o Utf8Decode(SubSeq(bs, 4, n))
             ELSE <<ReplacementChar>> \o Utf8Decode(Tail(bs))

\* stream.write(string): the string's UTF-8 encoding.
RECURSIVE Utf8Encode(_)
Utf8Encode(cps) ==
    IF cps = <<>> THEN <<>>
    ELSE LET c == Head(cps)
         IN  (IF c < 128 THEN <<c>>
              ELSE IF c < 2048 THEN <<192 + (c \div 64), 128 + (c % 64)>>
              ELSE <<224 + (c \div 4096), 128 + ((c \div 64) % 64), 128 + (c % 64)>>)
             \o Utf8Encode(Tail(cps))

(***************************************************************************)
(* JSON.parse on the subset of JSON the modelled messages use: null, true, *)
(* false, integers, strings without escapes, arrays, objects.              *)
(***************************************************************************)
JNull == [k |-> "null"]
JUndefined == [k |-> "undefined"]
JBool(b) == [k |-> "bool", b |-> b]
JNum(n) == [k |-> "num", n |-> n]
JStr(s) == [k |-> "str", s |-> s]
JArr(a) == [k |-> "arr", a |-> a]
JObj(m) == [k |-> "obj", m |-> m]

PFail == [ok |-> FALSE, v |-> JUndefined, i |-> 0]
POk(v, i) == [ok |-> TRUE, v |-> v, i |-> i]

IsWs(c) == c \in {32, 9, 10, 13}
IsDigit(c) == c \in 48..57

RECURSIVE SkipWs(_, _)
SkipWs(s, i) == IF i <= Len(s) /\ IsWs(s[i]) THEN SkipWs(s, i + 1) ELSE i

MatchLit(s, i, lit) ==
    /\ i + Len(lit) - 1 <= Len(s)
    /\ SubSeq(s, i, i + Len(lit) - 1) = lit

RECURSIVE ParseDigits(_, _, _)
ParseDigits(s, i, acc) ==
    IF i <= Len(s) /\ IsDigit(s[i])
    THEN ParseDigits(s, i + 1, acc * 10 + (s[i] - 48))
    ELSE [n |-> acc, i |-> i]

\* -? ( 0 | [1-9][0-9]* )
ParseNumber(s, i) ==
    LET neg == i <= Len(s) /\ s[i] = 45
        j == IF neg THEN i + 1 ELSE i
    IN  IF ~(j <= Len(s) /\ IsDigit(s[j])) THEN PFail
        ELSE IF s[j] = 48 THEN POk(JNum(0), j + 1)
        ELSE LET d == ParseDigits(s, j, 0)
             IN  POk(JNum(IF neg THEN 0 - d.n ELSE d.n), d.i)

RECURSIVE StringEnd(_, _)
\* index of the closing quote of the string whose body starts at i, 0 if none
StringEnd(s, i) ==
    IF i > Len(s) THEN 0
    ELSE IF s[i] = 34 THEN i
    ELSE IF s[i] < 32 \/ s[i] = 92 THEN 0
    ELSE StringEnd(s, i + 1)

ParseString(s, i) ==
    IF ~(i <= Len(s) /\ s[i] = 34) THEN PFail
    ELSE LET e == StringEnd(s, i + 1)
         IN  IF e = 0 THEN PFail ELSE POk(JStr(SubSeq(s, i + 1, e - 1)), e + 1)

LitNull == Str(<<"n", "u", "l", "l">>)
LitTrue == Str(<<"t", "r", "u", "e">>)
LitFalse == Str(<<"f", "a", "l", "s", "e">>)

RECURSIVE ParseValue(_, _)
RECURSIVE ParseElements(_, _, _)
RECURSIVE ParseMembers(_, _, _)

\* i is at the first element; acc holds the elements parsed so far
ParseElements(s, i, acc) ==
    LET r == ParseValue(s, SkipWs(s, i))
    IN  IF ~r.ok THEN PFail
        ELSE LET j == SkipWs(s, r.i)
             IN  IF j > Len(s) THEN PFail
                 ELSE IF s[j] = 93 THEN POk(JArr(Append(acc, r.v)), j + 1)
                 ELSE IF s[j] = 44 THEN ParseElements(s, j + 1, Append(acc, r.v))
                 ELSE PFail

\* i is at the first member; acc holds the <<key, value>> pairs parsed so far
ParseMembers(s, i, acc) ==
    LET key == ParseString(s, SkipWs(s, i))
    IN  IF ~key.ok THEN PFail
        ELSE LET c == SkipWs(s, key.i)
             IN  IF ~(c <= Len(s) /\ s[c] = 58) THEN PFail
                 ELSE LET r == ParseValue(s, SkipWs(s, c + 1))
                      IN  IF ~r.ok THEN PFail
                          ELSE LET j == SkipWs(s, r.i)
                                   m == Append(acc, [key |-> key.v.s, val |-> r.v])
                               IN  IF j > Len(s) THEN PFail
                                   ELSE IF s[j] = 125 THEN POk(JObj(m), j + 1)
                                   ELSE IF s[j] = 44 THEN ParseMembers(s, j + 1, m)
                                   ELSE PFail

ParseValue(s, i) ==
    IF i > Len(s) THEN PFail
    ELSE IF MatchLit(s, i, LitNull) THEN POk(JNull, i + 4)
    ELSE IF MatchLit(s, i, LitTrue) THEN POk(JBool(TRUE), i + 4)
    ELSE IF MatchLit(s, i, LitFalse) THEN POk(JBool(FALSE), i + 5)
    ELSE IF s[i] = 34 THEN ParseString(s, i)
    ELSE IF s[i] = 45 \/ IsDigit(s[i]) THEN ParseNumber(s, i)
    ELSE IF s[i] = 91
         THEN LET j == SkipWs(s, i + 1)
              IN  IF j <= Len(s) /\ s[j] = 93 THEN POk(JArr(<<>>), j + 1)
                  ELSE ParseElements(s, i + 1, <<>>)
    ELSE IF s[i] = 123
         THEN LET j == SkipWs(s, i + 1)
              IN  IF j <= Len(s) /\ s[j] = 125 THEN POk(JObj(<<>>), j + 1)
                  ELSE ParseMembers(s, i + 1, <<>>)
    ELSE PFail

\* JSON.parse(text): ok = FALSE is the SyntaxError it throws.
JSONParse(s) ==
    LET r == ParseValue(s, SkipWs(s, 1))
    IN  IF r.ok /\ SkipWs(s, r.i) = Len(s) + 1
        THEN [ok |-> TRUE, v |-> r.v]
        ELSE [ok |-> FALSE, v |-> JUndefined]

RECURSIVE Lookup(_, _, _)
\* the value of the last member named key among the first n, undefined if none
Lookup(m, key, n) ==
    IF n = 0 THEN JUndefined
    ELSE IF m[n].key = key THEN m[n].val
    ELSE Lookup(m, key, n - 1)

\* data.<key> on a parsed value that is not null: own members of an object,
\* undefined on a number, boolean, string or array (none of the four keys
\* read by the handler exists on their prototypes).
GetProp(v, key) ==
    IF v.k = "obj" THEN Lookup(v.m, key, Len(v.m)) ELSE JUndefined

(***************************************************************************)
(* Number.parseInt(text) without a radix, on decimal text: leading white   *)
(* space is skipped, an optional sign and the longest run of digits are    *)
(* read, anything after it is ignored; no digit at all gives NaN.          *)
(***************************************************************************)
NaN == [nan |-> TRUE, n |-> 0]
Num(n) == [nan |-> FALSE, n |-> n]

ParseInt(s) ==
    LET i == SkipWs(s, 1)
        neg == i <= Len(s) /\ s[i] = 45
        j == IF neg THEN i + 1 ELSE i
    IN  IF ~(j <= Len(s) /\ IsDigit(s[j])) THEN NaN
        ELSE LET d == ParseDigits(s, j, 0)
             IN  Num(IF neg THEN 0 - d.n ELSE d.n)

\* NaN * k is NaN
Times(x, k) == IF x.nan THEN NaN ELSE Num(x.n * k)

\* url.searchParams.get(name): null when the parameter is absent
Absent == [present |-> FALSE, s |-> <<>>]
Param(cs) == [present |-> TRUE, s |-> Str(cs)]

\* url.searchParams.get(name) ?? dflt
OrDefault(p, dflt) == IF p.present THEN p.s ELSE dflt

DefaultCols == Str(<<"8", "0">>)
DefaultRows == Str(<<"3", "0">>)
CharWidth == 7
CharHeight == 14

(***************************************************************************)
(* The inputs of a session.                                                *)
(***************************************************************************)
\* vmId query parameter: absent, empty, or naming a vm
VmIdParams == {Absent, Param(<<>>), Param(<<"1">>)}

\* <<cols, rows>> query parameters
GeometryParams ==
    { <<Absent, Absent>>,
      <<Param(<<"1", "2", "0">>), Param(<<"a", "b", "c">>)>>,
      <<Param(<<"1", "2", "p", "x">>), Param(<<" ", "4", "0">>)>> }

\* what db.query.vm.findFirst returns: nothing, a vm without sshInfo, or a vm
\* whose sshInfo names a stored key (keyId) and/or carries an inline key
NoVm == [found |-> FALSE, sshInfo |-> FALSE, keyId |-> FALSE, inlineKey |-> FALSE]
VmRows ==
    { NoVm, [found |-> TRUE, sshInfo |-> FALSE, keyId |-> FALSE, inlineKey |-> FALSE] }
    \cup { [found |-> TRUE, sshInfo |-> TRUE, keyId |-> k, inlineKey |-> i] :
             k \in BOOLEAN, i \in BOOLEAN }

\* inbound messages, as the bytes of the frame
MsgResize ==
    Str(<<"{", "\"", "t", "y", "p", "e", "\"", ":", "\"", "r", "e", "s", "i", "z", "e", "\"",
          ",", "\"", "r", "o", "w", "s", "\"", ":", "4", "0",
          ",", "\"", "c", "o", "l", "s", "\"", ":", "1", "2", "0", "}">>)
MsgResizeTextRows ==
    Str(<<"{", "\"", "t", "y", "p", "e", "\"", ":", "\"", "r", "e", "s", "i", "z", "e", "\"",
          ",", "\"", "r", "o", "w", "s", "\"", ":", "\"", "4", "0", "\"",
          ",", "\"", "c", "o", "l", "s", "\"", ":", "1", "2", "0", "}">>)
MsgResizeData ==
    Str(<<"{", "\"", "t", "y", "p", "e", "\"", ":", "\"", "r", "e", "s", "i", "z", "e", "\"",
          ",", "\"", "d", "a", "t", "a", "\"", ":", "\"", "x", "\"", "}">>)
MsgData ==
    Str(<<"{", "\"", "d", "a", "t", "a", "\"", ":", "\"", "l", "s", "\"", "}">>)
MsgTypedData ==
    Str(<<"{", "\"", "t", "y", "p", "e", "\"", ":", "\"", "i", "n", "\"",
          ",", "\"", "d", "a", "t", "a", "\"", ":", "\"", "x", "\"", "}">>)
MsgDataNumber ==
    Str(<<"{", "\"", "d", "a", "t", "a", "\"", ":", "5", "}">>)
MsgNull == Str(<<"n", "u", "l", "l">>)
MsgNumber == Str(<<"5">>)
MsgText == Str(<<"l", "s">>)
\* a binary frame that is not valid UTF-8: "l" followed by the byte 0xFF
MsgBinary == <<108, 255>>

Messages ==
    { MsgResize, MsgResizeTextRows, MsgResizeData, MsgData, MsgTypedData,
      MsgDataNumber, MsgNull, MsgNumber, MsgText, MsgBinary }

KeyType == Str(<<"t", "y", "p", "e">>)
KeyRows == Str(<<"r", "o", "w", "s">>)
KeyCols == Str(<<"c", "o", "l", "s">>)
KeyData == Str(<<"d", "a", "t", "a">>)
TypeResize == Str(<<"r", "e", "s", "i", "z", "e">>)

\* exit codes a shell stream closes with
ExitCodes == {0, 1}

(***************************************************************************)
(* Bounds on the events of the environment.                                *)
(***************************************************************************)
\* messages, data events, stream errors and timer ticks of one session, together
MaxEvents == 2

(***************************************************************************)
(* ws.on("message"): what handling one message does, as a value.           *)
(*   act = "write"     stream.write(bytes)                                 *)
(*   act = "setWindow" stream.setWindow(win)                               *)
(*   act = "none"      nothing                                             *)
(*   act = "throw"     an error other than SyntaxError reached the outer   *)
(*                     catch, which sends an [ERROR] notice                *)
(***************************************************************************)
Effect(act, bytes, win) == [act |-> act, bytes |-> bytes, win |-> win]
NoWin == <<0, 0, 0, 0>>

\* HandleMessage with a resize whose rows/cols are not numeric falling through
\* to the data branch
HandleMessageResizeFallsThrough(message) ==
    LET text == Utf8Decode(message)
        parsed == JSONParse(text)
        data == parsed.v
    IN  IF ~parsed.ok
        THEN Effect("write", Utf8Encode(text), NoWin)
        ELSE IF data.k = "null"
        THEN Effect("throw", <<>>, NoWin)
        ELSE LET type == GetProp(data, KeyType)
                 rows == GetProp(data, KeyRows)
                 cols == GetProp(data, KeyCols)
                 payload == GetProp(data, KeyData)
             IN  IF type.k = "str" /\ type.s = TypeResize
                    /\ rows.k = "num" /\ cols.k = "num"
                 THEN Effect("setWindow", <<>>,
                             <<rows.n, cols.n, cols.n * CharWidth, rows.n * CharHeight>>)
                 ELSE Effect("write",
                             Utf8Encode(IF payload.k = "str" THEN payload.s ELSE text),
                             NoWin)

\* HandleMessage with the pixel width derived from the rows and the pixel
\* height from the cols
HandleMessageWindowSwapped(message) ==
    LET text == Utf8Decode(message)
        parsed == JSONParse(text)
        data == parsed.v
    IN  IF ~parsed.ok
        THEN Effect("write", Utf8Encode(text), NoWin)
        ELSE IF data.k = "null"
        THEN Effect("throw", <<>>, NoWin)
        ELSE LET type == GetProp(data, KeyType)
                 rows == GetProp(data, KeyRows)
                 cols == GetProp(data, KeyCols)
                 payload == GetProp(data, KeyData)
             IN  IF type.k = "str" /\ type.s = TypeResize
                 THEN IF rows.k = "num" /\ cols.k = "num"
                      THEN Effect("setWindow", <<>>,
                                  <<rows.n, cols.n, rows.n * CharWidth, cols.n * CharHeight>>)
                      ELSE Effect("none", <<>>, NoWin)
                 ELSE Effect("write",
                             Utf8Encode(IF payload.k = "str" THEN payload.s ELSE text),
                             NoWin)

HandleMessage(message) ==
    LET command == Utf8Decode(message)      \* message.toString("utf8")
        text == Utf8Decode(message)         \* message.toString()
        parsed == JSONParse(text)
        data == parsed.v
    IN  IF ~parsed.ok
        THEN \* SyntaxError: treat as plain command
             Effect("write", Utf8Encode(command), NoWin)
        ELSE IF data.k = "null"
        THEN \* data.type on null throws a TypeError, which is re-thrown
             Effect("throw", <<>>, NoWin)
        ELSE LET type == GetProp(data, KeyType)
                 rows == GetProp(data, KeyRows)
                 cols == GetProp(data, KeyCols)
                 payload == GetProp(data, KeyData)
             IN  IF type.k = "str" /\ type.s = TypeResize
                 THEN IF rows.k = "num" /\ cols.k = "num"
                      THEN Effect("setWindow", <<>>,
                                  <<rows.n, cols.n, cols.n * CharWidth, rows.n * CharHeight>>)
                      ELSE Effect("none", <<>>, NoWin)
                 ELSE Effect("write",
                             Utf8Encode(IF payload.k = "str" THEN payload.s ELSE text),
                             NoWin)

\* HandleMessage on each of the modelled messages
MessageEffect == [m \in Messages |-> HandleMessage(m)]

(***************************************************************************)
(* State of one session.                                                   *)
(***************************************************************************)
VARIABLES
    pc,             \* position of the async connection handler
    session,        \* what auth.api.getSession returned: "pending", "none", "user"
    vmIdParam,      \* the vmId query parameter
    geomParam,      \* the <<cols, rows>> query parameters
    vm,             \* the vm row held while the key query is awaited
    resolverCalls,  \* calls of db.query.*.findFirst
    wsState,        \* ws.readyState: "OPEN", "CLOSING", "CLOSED"
    wsClosedBy,     \* who started the closing handshake: "none", "client", "bridge"
    closePhase,     \* phase the session was in when the client closed
    wsCloseCalls,   \* calls of ws.close()
    sent,           \* calls of ws.send(): frame, and whether ws was OPEN
    timer,          \* pingInterval: "none", "active", "cleared"
    clearCalls,     \* calls of clearInterval(pingInterval)
    ticks,          \* timer callbacks run
    pings,          \* calls of ws.ping()
    phase,          \* the ssh connection: "none", "connecting", "authenticating",
                    \* "shellRequested", "shellOpen", "shellFailed"
    connAlive,      \* conn is connected or connecting, and not ended
    connectCalls,   \* calls of conn.connect()
    connectKey,     \* the privateKey given to conn.connect()
    connEndCalls,   \* calls of conn.end()
    shellOpts,      \* the options given to conn.shell()
    stream,         \* the shell stream: "none", "open", "ended", "closed"
    streamEndCalls, \* calls of stream.end()
    handlers,       \* the shell callback has registered its ws and stream listeners
    written,        \* calls of stream.write(): bytes, and the stream's state
    windows,        \* calls of stream.setWindow()
    lastMsg,        \* the messages the message listener has handled
    dropped,        \* messages that arrived while no message listener was registered
    outCount,       \* data events of the stream and of its stderr
    streamErrors,   \* error events of the stream
    setupFailure    \* the setup failure of the session, "none" if none

vars ==
    << pc, session, vmIdParam, geomParam, vm, resolverCalls, wsState, wsClosedBy, closePhase,
       wsCloseCalls, sent, timer, clearCalls, ticks, pings, phase, connAlive,
       connectCalls, connectKey, connEndCalls, shellOpts, stream, streamEndCalls,
       handlers, written, windows, lastMsg, dropped, outCount, streamErrors, setupFailure >>

inputVars == <<vmIdParam, geomParam>>
\* !vmId is false
VmIdOk == vmIdParam.present /\ vmIdParam.s # <<>>
lookupVars == <<vm, resolverCalls>>
wsVars == <<wsState, wsClosedBy, closePhase, wsCloseCalls>>
timerVars == <<timer, clearCalls, ticks, pings>>
connVars == <<phase, connAlive, connectCalls, connectKey, connEndCalls, shellOpts>>
streamVars == <<stream, streamEndCalls, written, windows>>
envVars == <<lastMsg, dropped, outCount, streamErrors>>

\* the events of the environment counted against MaxEvents
EnvEvents ==
    Len(lastMsg) + dropped + outCount.stdout + outCount.stderr + streamErrors + ticks

NoOpts == [cols |-> NaN, rows |-> NaN, width |-> NaN, height |-> NaN]

Init ==
    /\ pc = "auth"
    /\ session = "pending"
    /\ vmIdParam \in VmIdParams
    /\ geomParam \in GeometryParams
    /\ vm = NoVm
    /\ resolverCalls = 0
    /\ wsState = "OPEN"
    /\ wsClosedBy = "none"
    /\ closePhase = "none"
    /\ wsCloseCalls = 0
    /\ sent = <<>>
    /\ timer = "none"
    /\ clearCalls = 0
    /\ ticks = 0
    /\ pings = 0
    /\ phase = "none"
    /\ connAlive = FALSE
    /\ connectCalls = 0
    /\ connectKey = "none"
    /\ connEndCalls = 0
    /\ shellOpts = NoOpts
    /\ stream = "none"
    /\ streamEndCalls = 0
    /\ handlers = FALSE
    /\ written = <<>>
    /\ windows = <<>>
    /\ lastMsg = <<>>
    /\ dropped = 0
    /\ outCount = [stdout |-> 0, stderr |-> 0]
    /\ streamErrors = 0
    /\ setupFailure = "none"

(***************************************************************************)
(* The library calls the handlers make.                                    *)
(***************************************************************************)
\* ws.send(frame): the call is recorded with the readyState it met
Frame(f, n) == [f |-> f, n |-> n, open |-> wsState = "OPEN"]
WsSend(f, n) == sent' = Append(sent, Frame(f, n))

\* ws.close(): starts the closing handshake of an OPEN socket
WsClose ==
    /\ wsCloseCalls' = wsCloseCalls + 1
    /\ wsState' = IF wsState = "OPEN" THEN "CLOSING" ELSE wsState
    /\ wsClosedBy' = IF wsState = "OPEN" THEN "bridge" ELSE wsClosedBy
    /\ UNCHANGED closePhase

\* clearInterval(pingInterval)
ClearInterval ==
    /\ clearCalls' = clearCalls + 1
    /\ timer' = "cleared"
    /\ UNCHANGED <<ticks, pings>>

\* conn.end()
ConnEnd ==
    /\ connEndCalls' = connEndCalls + 1
    /\ connAlive' = FALSE
    /\ UNCHANGED <<phase, connectCalls, connectKey, shellOpts>>

\* a setup failure: one notice, then ws.close(), and the handler returns
Reject(notice) ==
    /\ WsSend(notice, 0)
    /\ WsClose
    /\ pc' = "rejected"
    /\ setupFailure' = notice

(***************************************************************************)
(* wssTerm.on("connection"): the async handler, one action per await.      *)
(***************************************************************************)
\* StartBridge without the connecting notice
StartBridgeNoNotice(privateKey) ==
    /\ pc' = "bridging"
    /\ timer' = "active"
    /\ phase' = "connecting"
    /\ connAlive' = TRUE
    /\ connectCalls' = connectCalls + 1
    /\ connectKey' = privateKey
    /\ UNCHANGED <<sent, wsVars, clearCalls, ticks, pings, connEndCalls, shellOpts,
                   setupFailure>>

\* new Client(), setInterval, the connecting notice, the listeners on conn,
\* and conn.connect()
StartBridge(privateKey) ==
    /\ pc' = "bridging"
    /\ timer' = "active"
    /\ WsSend("connecting", 0)
    /\ phase' = "connecting"
    /\ connAlive' = TRUE
    /\ connectCalls' = connectCalls + 1
    /\ connectKey' = privateKey
    /\ UNCHANGED <<wsVars, clearCalls, ticks, pings, connEndCalls, shellOpts, setupFailure>>

\* AuthResolved with the vm query started before vmId is checked
AuthResolvedLookupFirst(s) ==
    /\ pc = "auth"
    /\ session' = s
    /\ IF s = "none"
       THEN Reject("E_Unauthorized") /\ UNCHANGED lookupVars
       ELSE IF ~VmIdOk
       THEN Reject("E_InvalidRequest") /\ resolverCalls' = resolverCalls + 1 /\ UNCHANGED vm
       ELSE /\ pc' = "lookupVm"
            /\ resolverCalls' = resolverCalls + 1
            /\ UNCHANGED <<vm, sent, wsVars, setupFailure>>
    /\ UNCHANGED <<inputVars, timerVars, connVars, streamVars, handlers, envVars>>

\* auth.api.getSession resolves; the session and vmId checks; the vm query starts
AuthResolved(s) ==
    /\ pc = "auth"
    /\ session' = s
    /\ IF s = "none"
       THEN Reject("E_Unauthorized") /\ UNCHANGED lookupVars
       ELSE IF ~VmIdOk
       THEN Reject("E_InvalidRequest") /\ UNCHANGED lookupVars
       ELSE /\ pc' = "lookupVm"
            /\ resolverCalls' = resolverCalls + 1
            /\ UNCHANGED <<vm, sent, wsVars, setupFailure>>
    /\ UNCHANGED <<inputVars, timerVars, connVars, streamVars, handlers, envVars>>

\* db.query.vm.findFirst resolves; the vm and sshInfo checks; the key query
\* starts when sshInfo names a stored key
VmResolved(row) ==
    /\ pc = "lookupVm"
    /\ IF ~row.found
       THEN /\ Reject("E_ServerNotFound")
            /\ UNCHANGED <<lookupVars, timerVars, connVars>>
       ELSE IF ~row.sshInfo
       THEN /\ Reject("E_NoCredential")
            /\ UNCHANGED <<lookupVars, timerVars, connVars>>
       ELSE IF row.keyId
       THEN /\ pc' = "lookupKey"
            /\ vm' = row
            /\ resolverCalls' = resolverCalls + 1
            /\ UNCHANGED <<sent, wsVars, setupFailure, timerVars, connVars>>
       ELSE /\ StartBridge(IF row.inlineKey THEN "inline" ELSE "undefined")
            /\ UNCHANGED lookupVars
    /\ UNCHANGED <<session, inputVars, streamVars, handlers, envVars>>

\* db.query.sshKeysTable.findFirst resolves;
\* privateKey = sshKey?.privateKey ?? vm.sshInfo.privateKey
KeyResolved(found) ==
    /\ pc = "lookupKey"
    /\ StartBridge(IF found THEN "stored"
                   ELSE IF vm.inlineKey THEN "inline" ELSE "undefined")
    /\ vm' = NoVm
    /\ UNCHANGED <<session, inputVars, resolverCalls, streamVars, handlers, envVars>>

(***************************************************************************)
(* The ssh connection.                                                     *)
(***************************************************************************)
\* the transport is up and the key exchange done; authentication starts
Handshake ==
    /\ phase = "connecting"
    /\ connAlive
    /\ phase' = "authenticating"
    /\ UNCHANGED <<pc, session, inputVars, lookupVars, wsVars, sent, timerVars, connAlive,
                   connectCalls, connectKey, connEndCalls, shellOpts, streamVars,
                   handlers, envVars, setupFailure>>

\* conn.once("ready"): conn.shell(options, callback)
ConnReady ==
    /\ phase = "authenticating"
    /\ connAlive
    /\ phase' = "shellRequested"
    /\ LET cols == ParseInt(OrDefault(geomParam[1], DefaultCols))
           rows == ParseInt(OrDefault(geomParam[2], DefaultRows))
       IN  shellOpts' = [cols |-> cols, rows |-> rows,
                         width |-> Times(cols, CharWidth),
                         height |-> Times(rows, CharHeight)]
    /\ UNCHANGED <<pc, session, inputVars, lookupVars, wsVars, sent, timerVars, connAlive,
                   connectCalls, connectKey, connEndCalls, streamVars, handlers,
                   envVars, setupFailure>>

\* ShellCallback whose error branch sends the notice and leaves the socket open
ShellCallbackNoClose(err) ==
    /\ phase = "shellRequested"
    /\ ~connAlive => err
    /\ IF err
       THEN /\ WsSend("E_ShellError", 0)
            /\ phase' = "shellFailed"
            /\ setupFailure' = IF setupFailure = "none" THEN "E_ShellError" ELSE setupFailure
            /\ UNCHANGED <<stream, handlers, wsVars>>
       ELSE /\ WsSend("clear", 0)
            /\ phase' = "shellOpen"
            /\ stream' = "open"
            /\ handlers' = TRUE
            /\ UNCHANGED <<wsVars, setupFailure>>
    /\ UNCHANGED <<pc, session, inputVars, lookupVars, timerVars, connAlive, connectCalls,
                   connectKey, connEndCalls, shellOpts, streamEndCalls, written,
                   windows, envVars>>

\* the callback of conn.shell: with an error (the only outcome once the
\* connection is gone), or with the stream
ShellCallback(err) ==
    /\ phase = "shellRequested"
    /\ ~connAlive => err
    /\ IF err
       THEN /\ WsSend("E_ShellError", 0)
            /\ WsClose
            /\ phase' = "shellFailed"
            /\ setupFailure' = IF setupFailure = "none" THEN "E_ShellError" ELSE setupFailure
            /\ UNCHANGED <<stream, handlers>>
       ELSE /\ WsSend("clear", 0)
            /\ phase' = "shellOpen"
            /\ stream' = "open"
            /\ handlers' = TRUE
            /\ UNCHANGED <<wsVars, setupFailure>>
    /\ UNCHANGED <<pc, session, inputVars, lookupVars, timerVars, connAlive, connectCalls,
                   connectKey, connEndCalls, shellOpts, streamEndCalls, written,
                   windows, envVars>>

\* conn.on("error")
ConnError(level) ==
    /\ phase # "none"
    /\ connAlive
    /\ level = "client-authentication" => phase = "authenticating"
    /\ ClearInterval
    /\ WsSend(IF level = "client-authentication" THEN "E_AuthFailed" ELSE "E_ConnError", 0)
    /\ ConnEnd
    /\ WsClose
    /\ setupFailure' =
         IF setupFailure = "none" /\ phase \in {"connecting", "authenticating", "shellRequested"}
         THEN (IF level = "client-authentication" THEN "E_AuthFailed" ELSE "E_ConnError")
         ELSE setupFailure
    /\ UNCHANGED <<pc, session, inputVars, lookupVars, streamVars, handlers, envVars>>

(***************************************************************************)
(* The shell stream.                                                       *)
(***************************************************************************)
StreamLive == stream \in {"open", "ended"}

\* stream.on("data") and stream.stderr.on("data")
StreamData(src) ==
    /\ StreamLive
    /\ EnvEvents < MaxEvents
    /\ outCount' = [outCount EXCEPT ![src] = @ + 1]
    /\ WsSend(src, outCount[src] + 1)
    /\ UNCHANGED <<pc, session, inputVars, lookupVars, wsVars, timerVars, connVars, streamVars,
                   handlers, lastMsg, dropped, streamErrors, setupFailure>>

\* a stream error that also tears the bridge down
StreamErrorFatal ==
    /\ StreamLive
    /\ EnvEvents < MaxEvents
    /\ streamErrors' = streamErrors + 1
    /\ WsSend("E_StreamError", 0)
    /\ WsClose
    /\ UNCHANGED <<pc, session, inputVars, lookupVars, timerVars, connVars, streamVars,
                   handlers, lastMsg, dropped, outCount, setupFailure>>

\* stream.on("error")
StreamError ==
    /\ StreamLive
    /\ EnvEvents < MaxEvents
    /\ streamErrors' = streamErrors + 1
    /\ WsSend("E_StreamError", 0)
    /\ UNCHANGED <<pc, session, inputVars, lookupVars, wsVars, timerVars, connVars, streamVars,
                   handlers, lastMsg, dropped, outCount, setupFailure>>

\* StreamClose that leaves the heartbeat timer running
StreamCloseNoClear(code) ==
    /\ StreamLive
    /\ stream' = "closed"
    /\ WsSend("closed", code)
    /\ ConnEnd
    /\ WsClose
    /\ UNCHANGED <<pc, session, inputVars, lookupVars, timerVars, streamEndCalls,
                   written, windows, handlers, envVars, setupFailure>>

\* stream.on("close")
StreamClose(code) ==
    /\ StreamLive
    /\ stream' = "closed"
    /\ ClearInterval
    /\ WsSend("closed", code)
    /\ ConnEnd
    /\ WsClose
    /\ UNCHANGED <<pc, session, inputVars, lookupVars, streamEndCalls, written, windows,
                   handlers, envVars, setupFailure>>

(***************************************************************************)
(* The WebSocket.                                                          *)
(***************************************************************************)
\* the client starts the closing handshake (or its connection drops)
ClientClose ==
    /\ wsState = "OPEN"
    /\ wsState' = "CLOSING"
    /\ wsClosedBy' = "client"
    /\ closePhase' = IF phase = "none" THEN pc ELSE phase
    /\ UNCHANGED <<pc, session, inputVars, lookupVars, wsCloseCalls, sent, timerVars, connVars,
                   streamVars, handlers, envVars, setupFailure>>

\* the socket is closed: "close" is emitted, to ws.on("close") if the shell
\* callback has registered it
WsClosed ==
    /\ wsState = "CLOSING"
    /\ wsState' = "CLOSED"
    /\ IF handlers
       THEN /\ ClearInterval
            /\ streamEndCalls' = streamEndCalls + 1
            /\ stream' = IF stream = "open" THEN "ended" ELSE stream
            /\ ConnEnd
       ELSE UNCHANGED <<timerVars, stream, streamEndCalls, connVars>>
    /\ UNCHANGED <<pc, session, inputVars, lookupVars, wsClosedBy, closePhase, wsCloseCalls,
                   sent, written, windows, handlers, envVars, setupFailure>>

\* OnMessage with the message listener registered from the start, before
\* there is a shell stream
OnMessageBeforeShell(message) ==
    /\ wsState = "OPEN" \/ (wsState = "CLOSING" /\ wsClosedBy = "bridge")
    /\ EnvEvents < MaxEvents
    /\ LET e == MessageEffect[message]
       IN  /\ lastMsg' = Append(lastMsg, message)
           /\ written' = IF e.act = "write"
                         THEN Append(written, [bytes |-> e.bytes, stream |-> stream])
                         ELSE written
           /\ windows' = IF e.act = "setWindow" THEN Append(windows, e.win) ELSE windows
           /\ IF e.act = "throw" THEN WsSend("E_Message", 0) ELSE UNCHANGED sent
    /\ UNCHANGED <<pc, session, inputVars, lookupVars, wsVars, timerVars, connVars, stream,
                   streamEndCalls, handlers, dropped, outCount, streamErrors, setupFailure>>

\* ws.on("message")
OnMessage(message) ==
    /\ wsState = "OPEN" \/ (wsState = "CLOSING" /\ wsClosedBy = "bridge")
    /\ EnvEvents < MaxEvents
    /\ IF handlers
       THEN LET e == MessageEffect[message]
            IN  /\ lastMsg' = Append(lastMsg, message)
                /\ written' = IF e.act = "write"
                              THEN Append(written, [bytes |-> e.bytes, stream |-> stream])
                              ELSE written
                /\ windows' = IF e.act = "setWindow" THEN Append(windows, e.win) ELSE windows
                /\ IF e.act = "throw" THEN WsSend("E_Message", 0) ELSE UNCHANGED sent
                /\ UNCHANGED dropped
       ELSE \* no listener yet: the event is emitted to nobody
            /\ dropped' = dropped + 1
            /\ UNCHANGED <<lastMsg, written, windows, sent>>
    /\ UNCHANGED <<pc, session, inputVars, lookupVars, wsVars, timerVars, connVars, stream,
                   streamEndCalls, handlers, outCount, streamErrors, setupFailure>>

\* the setInterval callback without the readyState test
TickUnguarded ==
    /\ timer = "active"
    /\ EnvEvents < MaxEvents
    /\ ticks' = ticks + 1
    /\ pings' = pings + 1
    /\ UNCHANGED <<pc, session, inputVars, lookupVars, wsVars, sent, timer, clearCalls, connVars,
                   streamVars, handlers, envVars, setupFailure>>

\* the setInterval callback
Tick ==
    /\ timer = "active"
    /\ EnvEvents < MaxEvents
    /\ ticks' = ticks + 1
    /\ pings' = IF wsState = "OPEN" THEN pings + 1 ELSE pings
    /\ UNCHANGED <<pc, session, inputVars, lookupVars, wsVars, sent, timer, clearCalls, connVars,
                   streamVars, handlers, envVars, setupFailure>>

Next ==
    \/ \E s \in {"none", "user"} : AuthResolved(s)
    \/ \E row \in VmRows : VmResolved(row)
    \/ \E found \in BOOLEAN : KeyResolved(found)
    \/ Handshake
    \/ ConnReady
    \/ \E err \in BOOLEAN : ShellCallback(err)
    \/ \E level \in {"client-authentication", "client-socket"} : ConnError(level)
    \/ \E src \in {"stdout", "stderr"} : StreamData(src)
    \/ StreamError
    \/ \E code \in ExitCodes : StreamClose(code)
    \/ ClientClose
    \/ WsClosed
    \/ \E message \in Messages : OnMessage(message)
    \/ Tick

Spec == Init /\ [][Next]_vars

(***************************************************************************)
(* What the runtime guarantees to happen: a pending await resolves, the    *)
(* ssh handshake, authentication and shell request each complete unless    *)
(* the connection fails first (connect and ready timeouts bound them), a   *)
(* closing WebSocket ends closed, and the stream of a connection that has  *)
(* been ended closes.  Nothing obliges the client, the remote host or the  *)
(* remote shell to do anything.                                            *)
(***************************************************************************)
FairSpec ==
    /\ Spec
    /\ WF_vars(\E s \in {"none", "user"} : AuthResolved(s))
    /\ WF_vars(\E row \in VmRows : VmResolved(row))
    /\ WF_vars(\E found \in BOOLEAN : KeyResolved(found))
    /\ WF_vars(Handshake)
    /\ WF_vars(ConnReady)
    /\ WF_vars(\E err \in BOOLEAN : ShellCallback(err))
    /\ WF_vars(WsClosed)
    /\ WF_vars(~connAlive /\ \E code \in ExitCodes : StreamClose(code))

(***************************************************************************)
(* Properties.                                                             *)
(***************************************************************************)
ConnPhases == {"connecting", "authenticating", "shellRequested", "shellOpen"}

\* C1: teardown is idempotent: whatever terminal triggers fire (client
\* close, stream close, connection error), the bridge closes the transport
\* connection once and ends the remote connection once, never a second time.
TeardownOnce ==
    phase # "shellFailed" => (wsCloseCalls <= 1 /\ connEndCalls <= 1)

\* C2: when the client closes the transport after the remote connection
\* attempt has started, the shell stream and the remote connection are
\* eventually ended.
ClientCloseEndsRemote ==
    (wsClosedBy = "client" /\ closePhase \in ConnPhases)
        ~> (~connAlive /\ stream # "open")

\* C3: on every teardown path of the bridge the transport and the remote
\* connection are closed together: once the bridge has closed the transport
\* of a session with a remote connection, that connection is ended, and once
\* the remote connection is ended the transport is no longer open.
ClosedTogether ==
    /\ (phase # "none" /\ wsCloseCalls > 0) => connEndCalls > 0
    /\ connEndCalls > 0 => wsState # "OPEN"

\* C4: the heartbeat timer is cancelled exactly once: once the transport of
\* a session that started the timer is closed the timer is cancelled, and
\* clearInterval is never performed a second time.
HeartbeatCancelledOnce ==
    /\ clearCalls <= 1
    /\ (timer # "none" /\ wsState = "CLOSED") => timer = "cleared"

\* C5: an unauthenticated caller, or an authenticated caller without a vmId,
\* is rejected before any lookup: one error notice (Unauthorized,
\* respectively Invalid request), the transport closed, no resolver call, no
\* remote connection, no heartbeat timer.
RejectedBeforeLookup ==
    (session = "none" \/ (session = "user" /\ ~VmIdOk)) =>
        /\ pc = "rejected"
        /\ Len(sent) = 1
        /\ sent[1].f = (IF session = "none" THEN "E_Unauthorized" ELSE "E_InvalidRequest")
        /\ wsCloseCalls = 1
        /\ wsState # "OPEN"
        /\ resolverCalls = 0
        /\ connectCalls = 0
        /\ phase = "none"
        /\ timer = "none"

RejectedBeforeLookupWitness ==
    session = "user" /\ ~VmIdOk /\ wsState = "CLOSED" /\ wsClosedBy = "bridge"

\* C6: a target without usable credential material (no stored key, no
\* inline private key) gets the CredentialMissing notice and no remote
\* connection is attempted: conn.connect() is never called without a key.
NoConnectWithoutCredential ==
    /\ connectCalls > 0 => connectKey \in {"stored", "inline"}
    /\ setupFailure = "E_NoCredential" => connectCalls = 0

ErrorNotices ==
    { "E_Unauthorized", "E_InvalidRequest", "E_ServerNotFound", "E_NoCredential",
      "E_AuthFailed", "E_ConnError", "E_ShellError", "E_StreamError", "E_Message" }

Decoded == [m \in Messages |-> JSONParse(Utf8Decode(m))]

\* the message decodes and its type is "resize"
IsResizeMessage(m) ==
    /\ Decoded[m].ok
    /\ LET type == GetProp(Decoded[m].v, KeyType)
       IN  type.k = "str" /\ type.s = TypeResize

\* the step handles message m
Handles(m) == lastMsg' = Append(lastMsg, m)

\* C8: handling a message whose decoded type is "resize" writes nothing to
\* the shell input stream, with numeric rows/cols or not, and leaves the
\* lifecycle state of the session unchanged.
ResizeWritesNothing ==
    [][\A m \in Messages :
         (Handles(m) /\ IsResizeMessage(m)) =>
             /\ written' = written
             /\ UNCHANGED <<pc, wsVars, timer, clearCalls, phase, connAlive,
                            connEndCalls, stream, streamEndCalls, handlers,
                            setupFailure>>]_vars

ResizeWritesNothingWitness ==
    /\ Len(lastMsg) = 2
    /\ lastMsg[1] = MsgResize
    /\ lastMsg[2] = MsgResizeTextRows
    /\ Len(windows) = 1
    /\ written = <<>>

\* the bytes C9 says are written for a decoded message: its data field when
\* that is a string, the raw bytes of the message otherwise
DataOrRaw(m) ==
    LET payload == GetProp(Decoded[m].v, KeyData)
    IN  IF payload.k = "str" THEN Utf8Encode(payload.s) ELSE m

\* C9: a message that decodes and whose type is not "resize" makes exactly
\* one write to the shell input stream, of its data field when that is a
\* string and of its raw bytes otherwise; also when the decoded value is not
\* an object (null, a number).
DecodedMessageWritesOnce ==
    [][\A m \in Messages :
         (Handles(m) /\ Decoded[m].ok /\ ~IsResizeMessage(m)) =>
             written' = Append(written, [bytes |-> DataOrRaw(m), stream |-> stream])]_vars

\* C10: a message that fails decoding is written to the shell input stream
\* once, its bytes unmodified; no error notice is sent, no resize applied.
UndecodedMessageWrittenVerbatim ==
    [][\A m \in Messages :
         (Handles(m) /\ ~Decoded[m].ok) =>
             /\ written' = Append(written, [bytes |-> m, stream |-> stream])
             /\ sent' = sent
             /\ windows' = windows]_vars

\* the geometry a query parameter is meant to give: the default when the
\* parameter is absent or Number.parseInt finds no number in it
GeometryOrDefault(p, dflt) ==
    IF ~p.present \/ ParseInt(p.s).nan THEN dflt ELSE ParseInt(p.s).n

\* C11: the shell is requested with 80 columns and 30 rows whenever the
\* cols / rows parameter is absent or not numeric; a non-numeric parameter
\* never reaches conn.shell() as an invalid number.
InitialGeometryDefaults ==
    phase \in {"shellRequested", "shellOpen", "shellFailed"} =>
        /\ ~shellOpts.cols.nan
        /\ ~shellOpts.rows.nan
        /\ shellOpts.cols.n = GeometryOrDefault(geomParam[1], 80)
        /\ shellOpts.rows.n = GeometryOrDefault(geomParam[2], 30)

\* the positions in sent of the frames of kind f
FramesOf(f) == {i \in DOMAIN sent : sent[i].f = f}

\* C12: the frames of a session are ordered: the connecting notice is the
\* first frame, sent before any event of the remote connection is handled;
\* the terminal-clear sequence is sent exactly once, when the shell has
\* opened and before any shell output; the output frames of each source
\* (stdout, stderr) follow in the order the shell produced them.
FramesOrdered ==
    /\ phase # "none" => (Len(sent) >= 1 /\ sent[1].f = "connecting")
    /\ FramesOf("connecting") \subseteq {1}
    /\ Cardinality(FramesOf("clear")) = (IF handlers THEN 1 ELSE 0)
    /\ \A i \in FramesOf("clear") :
          \A j \in FramesOf("stdout") \cup FramesOf("stderr") : i < j
    /\ \A src \in {"stdout", "stderr"} :
          /\ Cardinality(FramesOf(src)) = outCount[src]
          /\ \A i, j \in FramesOf(src) : i < j => sent[i].n < sent[j].n

FramesOrderedWitness ==
    /\ Len(sent) = 4
    /\ sent[2].f = "clear"
    /\ sent[3] = [f |-> "stdout", n |-> 1, open |-> TRUE]
    /\ sent[4] = [f |-> "stdout", n |-> 2, open |-> TRUE]

\* C13: when the shell stream emits close with code c while the shell is
\* open, one close notice carrying c is sent, the transport is closed, the
\* remote connection is ended and the heartbeat timer is cancelled.
StreamCloseTearsDown ==
    [][\A c \in ExitCodes :
         (StreamClose(c) /\ stream = "open") =>
             /\ sent' = Append(sent, [f |-> "closed", n |-> c, open |-> wsState = "OPEN"])
             /\ wsCloseCalls' = wsCloseCalls + 1
             /\ wsState' # "OPEN"
             /\ connEndCalls' = connEndCalls + 1
             /\ ~connAlive'
             /\ timer' = "cleared"]_vars

StreamCloseTearsDownWitness ==
    /\ stream = "closed"
    /\ streamEndCalls = 0
    /\ Len(sent) = 3
    /\ sent[3] = [f |-> "closed", n |-> 0, open |-> TRUE]
    /\ wsState = "CLOSING"
    /\ wsClosedBy = "bridge"
    /\ timer = "cleared"
    /\ ~connAlive

\* the order of the states of the remote session and of the transport
PhaseRank(p) ==
    CASE p = "none" -> 0
      [] p = "connecting" -> 1
      [] p = "authenticating" -> 2
      [] p = "shellRequested" -> 3
      [] p = "shellOpen" -> 4
      [] p = "shellFailed" -> 5

WsRank(w) == CASE w = "OPEN" -> 0 [] w = "CLOSING" -> 1 [] w = "CLOSED" -> 2

\* C14: the session state is monotonic: no step returns the remote session
\* or the transport to an earlier state, and once the transport has closed
\* the session never afterwards enters ShellOpen.
StateMonotonic ==
    [][/\ PhaseRank(phase') >= PhaseRank(phase)
       /\ WsRank(wsState') >= WsRank(wsState)
       /\ wsState # "OPEN" => ~(phase # "shellOpen" /\ phase' = "shellOpen")]_vars

\* the bridge's lifecycle state: transport, heartbeat, remote connection, stream
Lifecycle == <<wsState, wsClosedBy, closePhase, wsCloseCalls, timer, clearCalls,
               phase, connAlive, connEndCalls, stream, streamEndCalls, handlers>>

\* C15: steady-state failures are non-fatal: a stream error event, and a
\* failure while handling one inbound message, each send exactly one error
\* notice and leave the transport, the remote connection, the shell stream
\* and the heartbeat as they were.
SteadyStateFailuresNonFatal ==
    [][/\ streamErrors' # streamErrors =>
             /\ sent' = Append(sent, Frame("E_StreamError", 0))
             /\ UNCHANGED Lifecycle
       /\ \A m \in Messages :
             (Handles(m) /\ MessageEffect[m].act = "throw") =>
                 /\ sent' = Append(sent, Frame("E_Message", 0))
                 /\ UNCHANGED Lifecycle
                 /\ UNCHANGED <<written, windows>>]_vars

SteadyStateFailuresNonFatalWitness ==
    /\ streamErrors = 1
    /\ Len(lastMsg) = 1
    /\ sent[Len(sent)] = [f |-> "E_Message", n |-> 0, open |-> TRUE]
    /\ \E i \in DOMAIN sent : sent[i] = [f |-> "E_StreamError", n |-> 0, open |-> TRUE]
    /\ wsState = "OPEN"
    /\ connAlive
    /\ stream = "open"
    /\ timer = "active"

\* the message is a resize whose decoded rows and cols are both numbers
IsNumericResize(m) ==
    /\ IsResizeMessage(m)
    /\ GetProp(Decoded[m].v, KeyRows).k = "num"
    /\ GetProp(Decoded[m].v, KeyCols).k = "num"

\* C16: handling a resize message with numeric rows r and cols c calls
\* stream.setWindow exactly once, with (r, c, c*7, r*14); the initial shell
\* request derives its pixel size the same way (width = cols*7,
\* height = rows*14).
ResizeSetsWindow ==
    [][/\ \A m \in Messages :
             (Handles(m) /\ IsNumericResize(m)) =>
                 LET r == GetProp(Decoded[m].v, KeyRows).n
                     c == GetProp(Decoded[m].v, KeyCols).n
                 IN  windows' = Append(windows, <<r, c, c * 7, r * 14>>)
       /\ shellOpts' # shellOpts =>
             /\ shellOpts'.width = Times(shellOpts'.cols, 7)
             /\ shellOpts'.height = Times(shellOpts'.rows, 14)]_vars

ResizeSetsWindowWitness ==
    /\ lastMsg = <<MsgResize>>
    /\ windows = <<<<40, 120, 840, 560>>>>
    /\ shellOpts.width = Num(84)

\* C17: the heartbeat pings only while the transport is open: a step that
\* sends a ping is a timer tick taken with the WebSocket OPEN, and a tick
\* on a closing or closed WebSocket sends nothing.
PingOnlyWhileOpen ==
    [][/\ pings' # pings => (wsState = "OPEN" /\ pings' = pings + 1 /\ ticks' = ticks + 1)
       /\ (ticks' # ticks /\ wsState # "OPEN") => pings' = pings]_vars

PingOnlyWhileOpenWitness ==
    /\ ticks = 2
    /\ pings = 1
    /\ wsState \in {"CLOSING", "CLOSED"}
    /\ timer = "active"

\* C18: after the transport has been closed, by the client or by the
\* bridge, the bridge never attempts another send on it: every ws.send call
\* (shell output, close notice, clear sequence, error notice) was made with
\* the WebSocket OPEN.
NoSendAfterClose ==
    \A i \in DOMAIN sent :
        sent[i].f \in {"stdout", "stderr", "closed", "clear"} \cup ErrorNotices => sent[i].open

\* C19: once the shell stream has closed or been ended, no inbound message
\* is written to it and no window resize is applied to it.
NoWriteAfterStreamClose ==
    [][stream # "open" => (written' = written /\ windows' = windows)]_vars

====
